---- MODULE Spec2Model ----
(***************************************************************************)
(* Model of the visual-novel engine of src/engine/src/lib.rs: the script   *)
(* compiler (Emitter, load_script), the interpreter (step) and the         *)
(* persistent EngineState with save / load.                                *)
(*                                                                         *)
(* Conventions.  Offsets (pc, else targets, label offsets) are 0-based as  *)
(* in the Rust code; code[i] of the Rust code is code[i + 1] here.         *)
(* Option<T> is a sequence of length at most one.  Rust Strings that the   *)
(* engine stores in memory or compares are sequences of one-character      *)
(* strings; file names of scripts and media are atomic strings.  A text    *)
(* line is given either already parsed (speaker, body) or as the raw       *)
(* characters after the keyword, which parse_text then cuts and unescapes. *)
(***************************************************************************)
EXTENDS Integers, Sequences, FiniteSets, TLC

VARIABLES
    state,      \* the EngineState
    savefile,   \* content of the save file on disk
    result,     \* what the last call returned to the host
    op,         \* the last call the host made
    ghost,      \* history of the calls, used to state the properties
    lines,      \* compiler: the lines of the file read so far
    emitter,    \* compiler: the Emitter
    phase,      \* compiler: "reading", "done" or "panic"
    script,     \* compiler: the Script returned by into_script
    split_line,   \* split_args: the line
    split_limit,  \* split_args: the limit, 0 while the line is being typed
    split_parts,  \* split_args: the Vec returned
    disk,       \* archive: the archive file
    archive,    \* archive: what leg_archive::load returned, with the file cursor
                \*   and the log of the last reads that returned
    mutex,      \* archive: the thread that holds the Mutex, 0 when it is free
    threads,    \* archive: the asset-layer threads
    esc_s,      \* unescape: the argument
    esc_out     \* unescape: None, or Some of the String returned

vars == <<state, savefile, result, op, ghost,
          lines, emitter, phase, script,
          split_line, split_limit, split_parts,
          disk, archive, mutex, threads,
          esc_s, esc_out>>

engineVars == <<state, savefile, result, op, ghost>>
compilerVars == <<lines, emitter, phase, script>>
splitVars == <<split_line, split_limit, split_parts>>
archiveVars == <<disk, archive, mutex, threads>>
textVars == <<esc_s, esc_out>>
toolVars == <<splitVars, archiveVars, textVars>>

\* ------------------------------------------------------------------------
\* Bounds
\* ------------------------------------------------------------------------
MaxLines == 4
MaxChoice == 2
MaxLineLen == 5
MaxLimit == 3
MaxTextLen == 4
NThreads == 2
LogLen == 3
RunLen == 2

\* ------------------------------------------------------------------------
\* Option and strings
\* ------------------------------------------------------------------------
None == <<>>
Some(x) == <<x>>
IsSome(o) == Len(o) = 1
Unwrap(o) == o[1]

S_selected == <<"s", "e", "l", "e", "c", "t", "e", "d">>
S_DATEIMAGE == <<"D", "A", "T", "E", "I", "M", "A", "G", "E">>
S_x == <<"x">>
S_y == <<"y">>
S_5 == <<"5">>
S_6 == <<"6">>

\* byte value of the characters the scripts of the model use
CharCode(c) ==
    CASE c = "0" -> 48 [] c = "1" -> 49 [] c = "2" -> 50 [] c = "3" -> 51
      [] c = "4" -> 52 [] c = "5" -> 53 [] c = "6" -> 54 [] c = "7" -> 55
      [] c = "8" -> 56 [] c = "9" -> 57 [] c = "A" -> 65 [] c = "B" -> 66
      [] c = "C" -> 67 [] c = "D" -> 68 [] c = "E" -> 69 [] c = "G" -> 71
      [] c = "I" -> 73 [] c = "M" -> 77 [] c = "T" -> 84 [] c = "a" -> 97
      [] c = "b" -> 98 [] c = "c" -> 99 [] c = "d" -> 100 [] c = "e" -> 101
      [] c = "g" -> 103 [] c = "l" -> 108 [] c = "p" -> 112 [] c = "s" -> 115
      [] c = "t" -> 116 [] c = "x" -> 120 [] c = "y" -> 121
      [] OTHER -> 63

DigitChar(d) ==
    CASE d = 0 -> "0" [] d = 1 -> "1" [] d = 2 -> "2" [] d = 3 -> "3"
      [] d = 4 -> "4" [] d = 5 -> "5" [] d = 6 -> "6" [] d = 7 -> "7"
      [] d = 8 -> "8" [] d = 9 -> "9"

\* usize::to_string
RECURSIVE to_string(_)
to_string(n) ==
    IF n < 10 THEN <<DigitChar(n)>>
    ELSE to_string(n \div 10) \o <<DigitChar(n % 10)>>

\* str::parse::<usize> of a string of decimal digits
RECURSIVE ParseUsize(_)
ParseUsize(s) ==
    IF Len(s) = 0 THEN 0
    ELSE 10 * ParseUsize(SubSeq(s, 1, Len(s) - 1)) + (CharCode(s[Len(s)]) - 48)

\* str's Ord: bytewise lexicographic order
RECURSIVE StrLess(_, _)
StrLess(a, b) ==
    IF Len(b) = 0 THEN FALSE
    ELSE IF Len(a) = 0 THEN TRUE
    ELSE IF CharCode(a[1]) # CharCode(b[1]) THEN CharCode(a[1]) < CharCode(b[1])
    ELSE StrLess(Tail(a), Tail(b))

\* str::strip_prefix / strip_suffix of one character, each where it applies
strip(s, c) ==
    LET s1 == IF Len(s) > 0 /\ s[1] = c THEN Tail(s) ELSE s
    IN  IF Len(s1) > 0 /\ s1[Len(s1)] = c THEN SubSeq(s1, 1, Len(s1) - 1) ELSE s1

\* the loop of unescape over s.chars()
RECURSIVE UnescapeChars(_, _)
UnescapeChars(s, escaped) ==
    IF Len(s) = 0 THEN <<>>
    ELSE IF s[1] = "\\" /\ ~escaped THEN UnescapeChars(Tail(s), TRUE)
    ELSE <<s[1]>> \o UnescapeChars(Tail(s), FALSE)

\* mutant: the backslashes are left in place
unescape_keeping(s) == strip(strip(s, "\""), "'")

unescape(s) == UnescapeChars(strip(strip(s, "\""), "'"), FALSE)

\* <<speaker, body>> of the argument of a text line
parse_text(s) ==
    LET spaces == {i \in 1..Len(s) : s[i] = " "}
    IN  IF (\E i \in 1..Len(s) : s[i] = "\"") /\ spaces # {}
        THEN LET k == CHOOSE i \in spaces : \A j \in spaces : i <= j
             IN  <<Some(unescape(SubSeq(s, 1, k - 1))),
                   unescape(SubSeq(s, k + 1, Len(s)))>>
        ELSE <<None, unescape(s)>>

\* char::is_ascii_whitespace, for the characters the lines of the model use
IsWhitespace(c) == c \in {" ", "\t"}

\* str::trim_start
RECURSIVE trim_start(_)
trim_start(s) ==
    IF Len(s) > 0 /\ IsWhitespace(s[1]) THEN trim_start(Tail(s)) ELSE s

\* the iterator of str::split: what is left of the string, and whether the
\* last piece has been handed out
SplitNew(s) == [rest |-> s, finished |-> FALSE]

\* Iterator::next of that iterator: <<the piece, the iterator after the call>>
SplitNext(it) ==
    IF it.finished THEN <<None, it>>
    ELSE LET ws == {i \in 1..Len(it.rest) : IsWhitespace(it.rest[i])}
         IN  IF ws = {}
             THEN <<Some(it.rest), [rest |-> <<>>, finished |-> TRUE]>>
             ELSE LET k == CHOOSE i \in ws : \A j \in ws : i <= j
                  IN  <<Some(SubSeq(it.rest, 1, k - 1)),
                        [rest |-> SubSeq(it.rest, k + 1, Len(it.rest)),
                         finished |-> FALSE]>>

\* Split::as_str: the part of the string not yet split
SplitAsStr(it) == IF it.finished THEN <<>> ELSE it.rest

\* the while loop of split_args: <<parts, the iterator after the loop>>
RECURSIVE SplitLoop(_, _, _)
SplitLoop(ps, it, lim) ==
    IF ~(Len(ps) < lim) THEN <<ps, it>>
    ELSE LET n == SplitNext(it)
         IN  IF ~IsSome(n[1]) THEN <<ps, n[2]>>
             ELSE IF Len(Unwrap(n[1])) = 0 THEN SplitLoop(ps, n[2], lim)
             ELSE SplitLoop(Append(ps, Unwrap(n[1])), n[2], lim)

split_args(l, lim) ==
    LET r == SplitLoop(<<>>, SplitNew(l), lim)
        rest == trim_start(SplitAsStr(r[2]))
    IN  IF Len(rest) > 0 THEN Append(r[1], rest) ELSE r[1]

\* HashMap::insert on a map modelled as a function
MapInsert(m, k, v) == [i \in DOMAIN m \cup {k} |-> IF i = k THEN v ELSE m[i]]
EmptyMap == [i \in {} |-> 0]

\* ------------------------------------------------------------------------
\* Instructions, labels, references
\* ------------------------------------------------------------------------
VarOrConst(is_ref, name, index) == [is_ref |-> is_ref, name |-> name, index |-> index]
Lit(name) == VarOrConst(FALSE, name, None)
Ref(name) == VarOrConst(TRUE, name, None)

Offset(n) == <<"Offset", n>>
Indexed(n) == <<"Indexed", n>>
Named(s) == <<"Named", s>>

I_cleartext == <<"cleartext">>
I_setvar(t, v) == <<"setvar", t, v>>
I_gsetvar(t, v) == <<"gsetvar", t, v>>
I_bgload(f, time) == <<"bgload", f, time>>
I_setimg(f, x, y) == <<"setimg", f, x, y>>
I_delay(n) == <<"delay", n>>
I_branch(lhs, o, rhs, else_target) == <<"branch", lhs, o, rhs, else_target>>
I_text(who, what) == <<"text", who, what>>
I_goto(label) == <<"goto", label>>
I_sound(f, arg) == <<"sound", f, arg>>
I_music(f) == <<"music", f>>
I_choice(choices) == <<"choice", choices>>
I_jump(f) == <<"jump", f>>

Operators == {"==", "!=", "<", "<="}

\* ------------------------------------------------------------------------
\* Emitter
\* ------------------------------------------------------------------------
\* `panicked` records that the compilation unwound with a panic
EmitterNew == [code |-> <<>>, last_branch |-> None, labels |-> EmptyMap,
               panicked |-> FALSE]

EmitterPanic(em) == [em EXCEPT !.panicked = TRUE]

emit(em, instr) == [em EXCEPT !.code = Append(@, instr)]

begin_branch(em) == [em EXCEPT !.last_branch = Some(Len(em.code))]

\* mutant: next_instr is taken from the label table instead of the code
end_branch_labels_len(em) ==
    IF ~IsSome(em.last_branch) THEN EmitterPanic(em)
    ELSE LET next_instr == Cardinality(DOMAIN em.labels)
             branch_instr == Unwrap(em.last_branch)
         IN  IF em.code[branch_instr + 1][1] = "branch"
             THEN [em EXCEPT !.code[branch_instr + 1][5] = next_instr]
             ELSE EmitterPanic(em)

end_branch(em) ==
    IF ~IsSome(em.last_branch) THEN EmitterPanic(em)
    ELSE LET next_instr == Len(em.code)
             branch_instr == Unwrap(em.last_branch)
         IN  IF em.code[branch_instr + 1][1] = "branch"
             THEN [em EXCEPT !.code[branch_instr + 1][5] = next_instr]
             ELSE EmitterPanic(em)

\* mutant: the label is recorded one instruction too far
make_label_off_by_one(em, label) ==
    [em EXCEPT !.labels = MapInsert(@, label, Len(em.code) + 1)]

make_label(em, label) ==
    [em EXCEPT !.labels = MapInsert(@, label, Len(em.code))]

GotoResolves(em, inst) == inst[1] = "goto" => inst[2] \in DOMAIN em.labels

\* mutant: a goto to an unknown label is resolved to the start of the script
into_script_lenient(em) ==
    [panicked |-> FALSE,
     code |-> [i \in 1..Len(em.code) |->
                 IF em.code[i][1] = "goto"
                 THEN IF em.code[i][2] \in DOMAIN em.labels
                      THEN I_goto(Offset(em.labels[em.code[i][2]]))
                      ELSE I_goto(Offset(0))
                 ELSE em.code[i]]]

into_script(em) ==
    IF \A i \in 1..Len(em.code) : GotoResolves(em, em.code[i])
    THEN [panicked |-> FALSE,
          code |-> [i \in 1..Len(em.code) |->
                      IF em.code[i][1] = "goto"
                      THEN I_goto(Offset(em.labels[em.code[i][2]]))
                      ELSE em.code[i]]]
    ELSE [panicked |-> TRUE, code |-> <<>>]

\* ------------------------------------------------------------------------
\* load_script (the compiler): one line, already cut into parts by
\* split_args(line, 3); parts[1] is the keyword.  References are given as
\* the VarOrConst that parse_var_ref returns, integers as their value.
\* ------------------------------------------------------------------------
IfPlaceholder(em) == Len(em.code)

CompileIf(em, parts) ==
    IF parts[3] \in Operators
    THEN emit(begin_branch(em),
              I_branch([parts[2] EXCEPT !.is_ref = TRUE], parts[3], parts[4],
                       IfPlaceholder(em)))
    ELSE EmitterPanic(begin_branch(em))

LabelOf(tok) == IF tok[1] = "@" THEN Indexed(tok[2]) ELSE Named(tok[2])

CompileLine(em, parts) ==
    LET kw == parts[1]
        n == Len(parts)
    IN  CASE kw = "cleartext" -> emit(em, I_cleartext)
          [] kw = "gsetvar" /\ n = 4 /\ parts[3] \in {"=", "-", "+"} ->
                emit(em, I_gsetvar(parts[2], unescape(parts[4])))
          [] kw = "setvar" /\ n = 4 /\ parts[3] \in {"=", "-", "+"} ->
                emit(em, I_setvar(parts[2], unescape(parts[4])))
          [] kw = "setvar" /\ n = 3 -> emit(em, I_setvar(parts[2], unescape(parts[3])))
          [] kw = "bgload" /\ n = 2 -> emit(em, I_bgload(parts[2], None))
          [] kw = "bgload" /\ n = 3 -> emit(em, I_bgload(parts[2], Some(parts[3])))
          [] kw = "setimg" /\ n = 4 -> emit(em, I_setimg(parts[2], parts[3], parts[4]))
          [] kw = "delay" /\ n = 2 -> emit(em, I_delay(parts[2]))
          [] kw = "if" /\ n = 4 -> CompileIf(em, parts)
          [] kw = "fi" /\ n = 1 -> end_branch(em)
          [] kw = "text" /\ n = 2 ->
                emit(em, I_text(parse_text(parts[2])[1], parse_text(parts[2])[2]))
          [] kw = "text" /\ n # 2 -> emit(em, I_text(parts[2], parts[3]))
          [] kw = "goto" /\ n = 2 -> emit(em, I_goto(LabelOf(parts[2])))
          [] kw = "label" /\ n = 2 -> make_label(em, LabelOf(parts[2]))
          [] kw = "sound" /\ n = 2 -> emit(em, I_sound(parts[2], None))
          [] kw = "sound" /\ n = 3 -> emit(em, I_sound(parts[2], Some(parts[3])))
          [] kw = "music" /\ n = 2 -> emit(em, I_music(parts[2]))
          [] kw = "choice" -> emit(em, I_choice(parts[2]))
          [] kw = "jump" /\ n = 2 -> emit(em, I_jump(parts[2]))
          [] OTHER -> EmitterPanic(em)

RECURSIVE CompileLines(_, _)
CompileLines(em, ls) ==
    IF Len(ls) = 0 \/ em.panicked THEN em
    ELSE CompileLines(CompileLine(em, Head(ls)), Tail(ls))

\* the Script load_script returns for a file with these lines
Compile(ls) ==
    LET em == CompileLines(EmitterNew, ls)
    IN  IF em.panicked THEN [panicked |-> TRUE, code |-> <<>>]
        ELSE into_script(em)

\* ------------------------------------------------------------------------
\* The game directories: Scripts/<name> as the lines of the file
\* ------------------------------------------------------------------------
L_named(s) == <<"", s>>
L_indexed(n) == <<"@", n>>

GameMain ==
    << <<"music", "bgm.ogg">>,
       <<"text", Some("Yuichi"), "Hello">>,
       <<"choice", <<Lit(<<"A">>), Lit(<<"B">>)>> >>,
       <<"if", Lit(S_selected), "==", <<"1">> >>,
       <<"text", None, "one">>,
       <<"fi">>,
       <<"jump", "b.scr">> >>

GameB ==
    << <<"label", L_named("top")>>,
       <<"text", None, "in B">>,
       <<"text", None, "again">>,
       <<"goto", L_named("top")>> >>

AltMain ==
    << <<"setvar", Lit(S_x), "=", S_5>>,
       <<"gsetvar", Lit(S_DATEIMAGE), "=", <<"d">> >>,
       <<"setimg", Ref(S_DATEIMAGE), 1, 2>>,
       <<"setimg", Lit(<<"p">>), 3, 4>>,
       <<"bgload", Lit(<<"b", "g">>)>>,
       <<"music", "m.ogg">>,
       <<"setvar", VarOrConst(FALSE, S_x, Some(1)), "-", <<"1", "0">> >>,
       <<"setvar", Lit(S_y), "+", <<"7">> >>,
       <<"setvar", Lit(S_x), S_6>>,
       <<"if", VarOrConst(FALSE, S_x, Some(1)), "<", <<"9">> >>,
       <<"text", <<"\"", "l", "e", "x", "\"">> >>,
       <<"fi">> >>

AltC ==
    << <<"choice", <<Lit(<<"A">>), Lit(<<"B">>), Lit(<<"C">>)>> >>,
       <<"text", <<"\"", "$", "s", "e", "l", "e", "c", "t", "e", "d", "\"">> >>,
       <<"cleartext">>,
       <<"delay", 3>>,
       <<"sound", "s.wav">>,
       <<"if", Lit(S_selected), "==", <<"1">> >>,
       <<"cleartext">>,
       <<"fi">>,
       <<"if", Lit(S_selected), "!=", <<"1">> >>,
       <<"cleartext">>,
       <<"fi">>,
       <<"if", Lit(S_selected), "<", <<"2">> >>,
       <<"cleartext">>,
       <<"fi">>,
       <<"if", Lit(S_selected), "<=", <<"1">> >>,
       <<"cleartext">>,
       <<"fi">>,
       <<"goto", L_indexed(1)>>,
       <<"text", <<"s", "k", "i", "p">> >>,
       <<"label", L_indexed(1)>> >>

AltD ==
    << <<"if", Lit(S_selected), "==", <<"1">> >>,
       <<"bgload", Ref(S_y), 2>>,
       <<"fi">>,
       <<"if", Lit(S_selected), "==", <<"1">> >>,
       <<"setimg", Ref(S_y), 0, 0>>,
       <<"fi">>,
       <<"if", Lit(S_selected), "==", <<"1">> >>,
       <<"choice", <<Ref(S_y)>> >>,
       <<"fi">>,
       <<"setvar", Ref(S_x), <<"1">> >> >>

BadScript == << <<"fi">> >>

\* a file without lines
EmptyScript == <<>>

MediaMain ==
    << <<"setimg", Lit(S_DATEIMAGE), 1, 2>>,
       <<"music", "m.ogg">>,
       <<"setimg", Lit(<<"p">>), 3, 4>>,
       <<"bgload", Lit(<<"b", "g">>)>> >>

\* the files of <directory>/Scripts
Scripts(dir) ==
    IF dir = "game"
    THEN [n \in {"main.scr", "b.scr", "bad.scr"} |->
            CASE n = "main.scr" -> GameMain
              [] n = "b.scr" -> GameB
              [] n = "bad.scr" -> BadScript]
    ELSE IF dir = "media"
    THEN [n \in {"main.scr", "empty.scr"} |->
            CASE n = "main.scr" -> MediaMain
              [] n = "empty.scr" -> EmptyScript]
    ELSE [n \in {"main.scr", "c.scr", "d.scr"} |->
            CASE n = "main.scr" -> AltMain
              [] n = "c.scr" -> AltC
              [] n = "d.scr" -> AltD]

\* the script names a host passes to load_script
ScriptNames == {"main.scr", "b.scr", "c.scr", "d.scr", "bad.scr", "empty.scr"}

\* ------------------------------------------------------------------------
\* StepResult
\* ------------------------------------------------------------------------
Clear == <<"Clear">>
Continue == <<"Continue">>
Exit == <<"Exit">>
Jump(f) == <<"Jump", f>>
Choice(cs) == <<"Choice", cs>>
Text(who, what) == <<"Text", who, what>>
Background(p) == <<"Background", p>>
Image(p, slot, x, y) == <<"Image", p, slot, x, y>>
Sound(f) == <<"Sound", f>>
Music(f) == <<"Music", f>>

\* what the host sees of a call that does not return a StepResult
Panic == <<"Panic">>
Unit == <<"Unit">>
Ok(x) == <<"Ok", x>>
Err == <<"Err">>

\* PathBuf::join of the directory, a sub-directory and a file name
Path(dir, sub, name) == <<dir, sub, name>>

Ret(st, r) == [state |-> st, result |-> r]

\* ------------------------------------------------------------------------
\* EngineState
\* ------------------------------------------------------------------------
\* mutant: the index of the binding is ignored
insert_index_zero(st, var, val) ==
    IF var.is_ref THEN Ret(st, Panic)
    ELSE LET name == var.name
             inner == IF name \in DOMAIN st.memory THEN st.memory[name] ELSE EmptyMap
         IN  Ret([st EXCEPT !.memory = MapInsert(@, name, MapInsert(inner, 0, val))],
                 Unit)

insert(st, var, val) ==
    IF var.is_ref THEN Ret(st, Panic)
    ELSE LET name == var.name
             index == IF IsSome(var.index) THEN Unwrap(var.index) ELSE 0
             inner == IF name \in DOMAIN st.memory THEN st.memory[name] ELSE EmptyMap
         IN  Ret([st EXCEPT !.memory = MapInsert(@, name, MapInsert(inner, index, val))],
                 Unit)

get_var(st, var) ==
    IF ~var.is_ref THEN Some(var.name)
    ELSE LET index == IF IsSome(var.index) THEN Unwrap(var.index) ELSE 0
         IN  IF var.name \notin DOMAIN st.memory THEN None
             ELSE IF index \notin DOMAIN st.memory[var.name] THEN None
             ELSE Some(st.memory[var.name][index])

\* mutant: load_script also resets the checkpoint
load_script_resets_checkpoint(st, name) ==
    IF name \notin DOMAIN Scripts(st.directory) THEN Ret(st, Panic)
    ELSE LET s == Compile(Scripts(st.directory)[name])
         IN  IF s.panicked THEN Ret(st, Panic)
             ELSE Ret([st EXCEPT !.scripts = MapInsert(@, name, [code |-> s.code]),
                                 !.current_script = name,
                                 !.pc = 0,
                                 !.pc_to_save = 0],
                      Unit)

\* mutant: load_script does not rewind pc
load_script_keeps_pc(st, name) ==
    IF name \notin DOMAIN Scripts(st.directory) THEN Ret(st, Panic)
    ELSE LET s == Compile(Scripts(st.directory)[name])
         IN  IF s.panicked THEN Ret(st, Panic)
             ELSE Ret([st EXCEPT !.scripts = MapInsert(@, name, [code |-> s.code]),
                                 !.current_script = name],
                      Unit)

\* mutant: the script is made current before it is compiled
load_script_eager(st, name) ==
    IF name \notin DOMAIN Scripts(st.directory)
    THEN Ret([st EXCEPT !.current_script = name, !.pc = 0], Panic)
    ELSE LET s == Compile(Scripts(st.directory)[name])
         IN  IF s.panicked THEN Ret([st EXCEPT !.current_script = name, !.pc = 0], Panic)
             ELSE Ret([st EXCEPT !.scripts = MapInsert(@, name, [code |-> s.code]),
                                 !.current_script = name,
                                 !.pc = 0],
                      Unit)

load_script(st, name) ==
    IF name \notin DOMAIN Scripts(st.directory) THEN Ret(st, Panic)
    ELSE LET s == Compile(Scripts(st.directory)[name])
         IN  IF s.panicked THEN Ret(st, Panic)
             ELSE Ret([st EXCEPT !.scripts = MapInsert(@, name, [code |-> s.code]),
                                 !.current_script = name,
                                 !.pc = 0],
                      Unit)

new(dir) ==
    load_script([scripts |-> EmptyMap,
                 memory |-> EmptyMap,
                 pc |-> 0,
                 current_script |-> "main.scr",
                 directory |-> dir,
                 last_music |-> None,
                 last_background |-> None,
                 last_date_image |-> None,
                 last_main_image |-> None,
                 pc_to_save |-> 0],
                "main.scr")

\* mutant: the choice is stored 0-based
set_choice_zero_based(st, index) == insert(st, Lit(S_selected), to_string(index))

set_choice(st, index) == insert(st, Lit(S_selected), to_string(index + 1))

\* serde_json writes the usize keys of the inner maps as decimal strings
SerializeMemory(m) ==
    [name \in DOMAIN m |->
        [k \in {to_string(i) : i \in DOMAIN m[name]} |->
            m[name][CHOOSE i \in DOMAIN m[name] : to_string(i) = k]]]

DeserializeMemory(m) ==
    [name \in DOMAIN m |->
        [i \in {ParseUsize(k) : k \in DOMAIN m[name]} |->
            m[name][CHOOSE k \in DOMAIN m[name] : ParseUsize(k) = i]]]

\* mutant: save writes pc instead of the checkpoint
SavedPc_current(st) == st.pc

SavedPc(st) == st.pc_to_save

\* the SerializedState that save writes
SerializedState(st) ==
    [pc |-> SavedPc(st),
     last_music |-> st.last_music,
     last_background |-> st.last_background,
     current_script |-> st.current_script,
     memory |-> SerializeMemory(st.memory),
     last_date_image |-> st.last_date_image,
     last_main_image |-> st.last_main_image]

\* mutant: the music is replayed before the background
ReplaySteps_music_first(serialized) ==
    (IF IsSome(serialized.last_music)
     THEN <<Music(Unwrap(serialized.last_music))>> ELSE <<>>)
    \o (IF IsSome(serialized.last_background)
        THEN <<Background(Unwrap(serialized.last_background))>> ELSE <<>>)
    \o (IF IsSome(serialized.last_main_image)
        THEN <<Image(Unwrap(serialized.last_main_image), "Main", 0, 0)>> ELSE <<>>)
    \o (IF IsSome(serialized.last_date_image)
        THEN <<Image(Unwrap(serialized.last_date_image), "Date", 0, 0)>> ELSE <<>>)

\* the replay list that load builds
ReplaySteps(serialized) ==
    (IF IsSome(serialized.last_background)
     THEN <<Background(Unwrap(serialized.last_background))>> ELSE <<>>)
    \o (IF IsSome(serialized.last_music)
        THEN <<Music(Unwrap(serialized.last_music))>> ELSE <<>>)
    \o (IF IsSome(serialized.last_main_image)
        THEN <<Image(Unwrap(serialized.last_main_image), "Main", 0, 0)>> ELSE <<>>)
    \o (IF IsSome(serialized.last_date_image)
        THEN <<Image(Unwrap(serialized.last_date_image), "Date", 0, 0)>> ELSE <<>>)

\* load of a file that holds the record `serialized`
load(st, serialized) ==
    LET ls == load_script(st, serialized.current_script)
    IN  IF ls.result = Panic THEN Ret(st, Panic)
        ELSE Ret([ls.state EXCEPT !.pc = serialized.pc,
                                  !.current_script = serialized.current_script,
                                  !.memory = DeserializeMemory(serialized.memory)],
                 Ok(ReplaySteps(serialized)))

\* what is left in a save file when serde_json could not write the whole record
Garbage == [truncated |-> TRUE]

\* serde_json::from_reader::<SerializedState>
from_reader(content) ==
    IF "truncated" \in DOMAIN content THEN Err ELSE Ok(content)

\* mutant: load rewinds the engine before it reads the record
load_file_rewinding(st, file) ==
    IF ~IsSome(file) THEN Ret(st, Err)
    ELSE LET parsed == from_reader(Unwrap(file))
         IN  IF parsed[1] = "Err" THEN Ret([st EXCEPT !.pc = 0], Err)
             ELSE load(st, parsed[2])

\* EngineState::load on the save file: File::open fails when there is none
load_file(st, file) ==
    IF ~IsSome(file) THEN Ret(st, Err)
    ELSE LET parsed == from_reader(Unwrap(file))
         IN  IF parsed[1] = "Err" THEN Ret(st, Err)
             ELSE load(st, parsed[2])

\* ------------------------------------------------------------------------
\* step: one arm per instruction
\* ------------------------------------------------------------------------
AdvancePc(st) == [st EXCEPT !.pc = @ + 1]

step_cleartext(st) == Ret(AdvancePc(st), Clear)

step_setvar(st, ident, value) ==
    LET r == insert(st, ident, value)
    IN  IF r.result = Panic THEN r ELSE Ret(AdvancePc(r.state), Continue)

step_bgload(st, file) ==
    LET st1 == AdvancePc(st)
        name == get_var(st1, file)
    IN  IF ~IsSome(name) THEN Ret(st1, Panic)
        ELSE LET path == Path(st.directory, "CG", Unwrap(name))
             IN  Ret([st1 EXCEPT !.last_background = Some(path)], Background(path))

\* mutant: the image is mirrored into the slot it was not drawn in
step_setimg_swapped(st, file, x, y) ==
    LET st1 == AdvancePc(st)
        name == get_var(st1, file)
    IN  IF ~IsSome(name) THEN Ret(st1, Panic)
        ELSE LET path == Path(st.directory, "CGAlt", Unwrap(name))
             IN  IF file.name = S_DATEIMAGE
                 THEN Ret([st1 EXCEPT !.last_main_image = Some(path)],
                          Image(path, "Date", x, y))
                 ELSE Ret([st1 EXCEPT !.last_date_image = Some(path)],
                          Image(path, "Main", x, y))

step_setimg(st, file, x, y) ==
    LET st1 == AdvancePc(st)
        name == get_var(st1, file)
    IN  IF ~IsSome(name) THEN Ret(st1, Panic)
        ELSE LET path == Path(st.directory, "CGAlt", Unwrap(name))
             IN  IF file.name = S_DATEIMAGE
                 THEN Ret([st1 EXCEPT !.last_date_image = Some(path)],
                          Image(path, "Date", x, y))
                 ELSE Ret([st1 EXCEPT !.last_main_image = Some(path)],
                          Image(path, "Main", x, y))

step_delay(st) == Ret(AdvancePc(st), Continue)

\* mutant: < and <= compare the operands as numbers
Compare_numeric(lhs, o, rhs) ==
    CASE o = "==" -> lhs = rhs
      [] o = "!=" -> lhs # rhs
      [] o = "<" -> ParseUsize(lhs) < ParseUsize(rhs)
      [] o = "<=" -> ParseUsize(lhs) <= ParseUsize(rhs)

Compare(lhs, o, rhs) ==
    CASE o = "==" -> lhs = rhs
      [] o = "!=" -> lhs # rhs
      [] o = "<" -> StrLess(lhs, rhs)
      [] o = "<=" -> lhs = rhs \/ StrLess(lhs, rhs)

step_branch(st, lhs, o, rhs, else_target) ==
    LET v == get_var(st, lhs)
    IN  IF ~IsSome(v) THEN Ret(st, Panic)
        ELSE IF Compare(Unwrap(v), o, rhs)
             THEN Ret(AdvancePc(st), Continue)
             ELSE Ret([st EXCEPT !.pc = else_target], Continue)

\* mutant: a text defaults the choice as a choice does
step_text_defaulting(st, who, what) ==
    Ret(insert([st EXCEPT !.pc_to_save = st.pc, !.pc = st.pc + 1],
               Lit(S_selected), <<"1">>).state,
        Text(who, what))

\* mutant: the checkpoint is taken after pc has advanced
step_text_checkpoint_late(st, who, what) ==
    Ret([st EXCEPT !.pc_to_save = st.pc + 1, !.pc = st.pc + 1], Text(who, what))

step_text(st, who, what) ==
    Ret([st EXCEPT !.pc_to_save = st.pc, !.pc = st.pc + 1], Text(who, what))

step_goto(st, target) == Ret([st EXCEPT !.pc = target[2]], Continue)

step_sound(st, file) == Ret(AdvancePc(st), Sound(file))

step_music(st, file) ==
    Ret([st EXCEPT !.last_music = Some(file), !.pc = st.pc + 1], Music(file))

step_choice(st, choices) ==
    LET st1 == [st EXCEPT !.pc_to_save = st.pc, !.pc = st.pc + 1]
        st2 == set_choice(st1, 0).state
    IN  IF \E i \in 1..Len(choices) : ~IsSome(get_var(st2, choices[i]))
        THEN Ret(st2, Panic)
        ELSE Ret(st2, Choice([i \in 1..Len(choices) |-> Unwrap(get_var(st2, choices[i]))]))

\* mutant: jump advances pc like the other instructions
step_jump_advancing(st, file) == Ret(AdvancePc(st), Jump(file))

step_jump(st, file) == Ret(st, Jump(file))

Execute(st, curr_inst) ==
    LET t == curr_inst[1]
    IN  CASE t = "cleartext" -> step_cleartext(st)
          [] t = "gsetvar" -> step_setvar(st, curr_inst[2], curr_inst[3])
          [] t = "setvar" -> step_setvar(st, curr_inst[2], curr_inst[3])
          [] t = "bgload" -> step_bgload(st, curr_inst[2])
          [] t = "setimg" -> step_setimg(st, curr_inst[2], curr_inst[3], curr_inst[4])
          [] t = "delay" -> step_delay(st)
          [] t = "branch" -> step_branch(st, curr_inst[2], curr_inst[3], curr_inst[4],
                                         curr_inst[5])
          [] t = "text" -> step_text(st, curr_inst[2], curr_inst[3])
          [] t = "goto" -> step_goto(st, curr_inst[2])
          [] t = "sound" -> step_sound(st, curr_inst[2])
          [] t = "music" -> step_music(st, curr_inst[2])
          [] t = "choice" -> step_choice(st, curr_inst[2])
          [] t = "jump" -> step_jump(st, curr_inst[2])

CurrentCode(st) == st.scripts[st.current_script].code

\* mutant: step loops over Continue until an event is to be delivered
RECURSIVE Collapse(_, _)
Collapse(st, fuel) ==
    IF st.pc < Len(CurrentCode(st))
    THEN LET r == Execute(st, CurrentCode(st)[st.pc + 1])
         IN  IF r.result = Continue /\ fuel > 0 THEN Collapse(r.state, fuel - 1) ELSE r
    ELSE Ret(st, Exit)

step_collapsing(st) == Collapse(st, 8)

\* mutant: at the end of the code the script is rewound
step_exit_rewinds(st) ==
    IF st.pc < Len(CurrentCode(st))
    THEN Execute(st, CurrentCode(st)[st.pc + 1])
    ELSE Ret([st EXCEPT !.pc = 0], Exit)

step(st) ==
    IF st.pc < Len(CurrentCode(st))
    THEN Execute(st, CurrentCode(st)[st.pc + 1])
    ELSE Ret(st, Exit)

\* ------------------------------------------------------------------------
\* The host's calls
\* ------------------------------------------------------------------------
NoFile == <<>>
ChoiceInputs == 0 .. (MaxChoice - 1)

Kind(r) == r[1]
IsEvent(r) == Kind(r) \in {"Text", "Choice"}

\* last_emit: offset of the last Text / Choice the current script run emitted
\*   (None: none yet; Some(-1): the run was resumed by load)
\* after_load: 0 right after a successful load, 1 after the step that follows
\*   it directly, 2 otherwise
\* run_events: number of Text / Choice results of the current script run (at most 2)
\* saved_after: the Text / Choice returned right before the save file was
\*   written, None when the save did not directly follow one
\* saved_next: what the next step of the run that wrote the save file returns
\* arg: the argument of the last call when it was set_choice or a load_script
\*   that returned
GhostInit ==
    [last_emit |-> None, after_load |-> 2, run_events |-> 0,
     saved_after |-> None, saved_next |-> None, arg |-> None]

\* the engine is gone once a call has panicked; the host can only start anew
Alive == result # Panic

\* nothing has been split and no archive has been opened
ToolsIdle ==
    /\ split_line = <<>>
    /\ split_limit = 0
    /\ split_parts = <<>>
    /\ disk = <<>>
    /\ archive = <<>>
    /\ mutex = 0
    /\ threads = <<>>
    /\ esc_s = <<>>
    /\ esc_out = <<>>

InitOn(dir) ==
    /\ state = new(dir).state
    /\ savefile = NoFile
    /\ result = Unit
    /\ op = "new"
    /\ ghost = GhostInit
    /\ lines = <<>>
    /\ emitter = EmitterNew
    /\ phase = "idle"
    /\ script = <<>>
    /\ ToolsIdle

\* a new process: EngineState::new on the same directory, the save file stays
New ==
    /\ op # "new"
    /\ state' = new(state.directory).state
    /\ result' = Unit
    /\ op' = "new"
    /\ ghost' = [ghost EXCEPT !.last_emit = None, !.after_load = 2, !.run_events = 0,
                               !.arg = None]
    /\ UNCHANGED <<savefile, compilerVars, toolVars>>

Step ==
    /\ Alive
    /\ LET r == step(state)
       IN  /\ state' = r.state
           /\ result' = r.result
           /\ op' = "step"
           /\ ghost' = [ghost EXCEPT
                          !.last_emit = IF IsEvent(r.result) THEN Some(state.pc) ELSE @,
                          !.run_events = IF IsEvent(r.result) /\ @ < 2 THEN @ + 1 ELSE @,
                          !.after_load = IF @ = 0 THEN 1 ELSE 2,
                          !.arg = None]
    /\ UNCHANGED <<savefile, compilerVars, toolVars>>

SetChoice ==
    /\ Alive
    /\ \E index \in ChoiceInputs :
          LET r == set_choice(state, index)
          IN  /\ state' = r.state
              /\ result' = r.result
              /\ ghost' = [ghost EXCEPT !.after_load = 2, !.arg = Some(index)]
    /\ op' = "set_choice"
    /\ UNCHANGED <<savefile, compilerVars, toolVars>>

LoadScript ==
    /\ Alive
    /\ \E name \in ScriptNames :
          LET r == load_script(state, name)
          IN  /\ state' = r.state
              /\ result' = r.result
              /\ ghost' = [ghost EXCEPT
                             !.last_emit = IF r.result = Panic THEN @ ELSE None,
                             !.run_events = IF r.result = Panic THEN @ ELSE 0,
                             !.after_load = 2,
                             !.arg = IF r.result = Panic THEN None ELSE Some(name)]
    /\ op' = "load_script"
    /\ UNCHANGED <<savefile, compilerVars, toolVars>>

\* the ways a save can end: File::create fails, the writer fails after the
\* file was created, or the record is written
SaveOutcomes == {"not_created", "not_written", "written"}

Save ==
    /\ Alive
    /\ \E outcome \in SaveOutcomes :
          CASE outcome = "written" ->
                 /\ savefile' = Some(SerializedState(state))
                 /\ result' = Ok(<<>>)
                 /\ ghost' = [ghost EXCEPT
                                !.after_load = 2,
                                !.arg = None,
                                !.saved_after = IF op = "step" /\ IsEvent(result)
                                                THEN Some(result) ELSE None,
                                !.saved_next = IF op = "step" /\ IsEvent(result)
                                               THEN Some(step(state).result) ELSE None]
            [] outcome = "not_written" ->
                 /\ savefile' = Some(Garbage)
                 /\ result' = Err
                 /\ ghost' = [ghost EXCEPT !.after_load = 2, !.arg = None,
                                           !.saved_after = None, !.saved_next = None]
            [] outcome = "not_created" ->
                 /\ savefile' = savefile
                 /\ result' = Err
                 /\ ghost' = [ghost EXCEPT !.after_load = 2, !.arg = None]
    /\ op' = "save"
    /\ UNCHANGED <<state, compilerVars, toolVars>>

Load ==
    /\ Alive
    /\ LET r == load_file(state, savefile)
       IN  /\ state' = r.state
           /\ result' = r.result
           /\ ghost' = IF Kind(r.result) = "Ok"
                       THEN [ghost EXCEPT !.last_emit = <<-1>>, !.after_load = 0,
                                          !.run_events = 0, !.arg = None]
                       ELSE [ghost EXCEPT !.after_load = 2, !.arg = None]
    /\ op' = "load"
    /\ UNCHANGED <<savefile, compilerVars, toolVars>>

Init == InitOn("game")

Next == New \/ Step \/ SetChoice \/ LoadScript \/ Save \/ Load

Spec == Init /\ [][Next]_vars

\* a play session on the directory "alt": the host steps, chooses and
\* follows jumps, and never touches the save file
InitPlay == InitOn("alt")

NextPlay == New \/ Step \/ SetChoice \/ LoadScript

SpecPlay == InitPlay /\ [][NextPlay]_vars

\* a game whose script draws into every media slot, saved and loaded at any point
InitMedia == InitOn("media")

SpecMedia == InitMedia /\ [][Next]_vars

\* ------------------------------------------------------------------------
\* The compiler as a machine: load_script reads the file line by line
\* ------------------------------------------------------------------------
LineAlphabet ==
    { <<"text", None, "t">>,
      <<"setvar", Lit(S_x), "=", S_5>>,
      <<"if", Lit(S_x), "==", S_6>>,
      <<"fi">>,
      <<"goto", L_named("a")>>,
      <<"label", L_named("a")>>,
      <<"goto", L_indexed(1)>>,
      <<"label", L_indexed(1)>>,
      <<"label", L_named("1")>> }

InitCompile ==
    /\ state = new("game").state
    /\ savefile = NoFile
    /\ result = Unit
    /\ op = "new"
    /\ ghost = GhostInit
    /\ lines = <<>>
    /\ emitter = EmitterNew
    /\ phase = "reading"
    /\ script = <<>>
    /\ ToolsIdle

\* one iteration of the loop over reader.lines()
ReadFrom(alphabet) ==
    /\ phase = "reading"
    /\ Len(lines) < MaxLines
    /\ \E parts \in alphabet :
          /\ lines' = Append(lines, parts)
          /\ emitter' = CompileLine(emitter, parts)
          /\ phase' = IF CompileLine(emitter, parts).panicked THEN "panic" ELSE "reading"
    /\ UNCHANGED <<script, engineVars, toolVars>>

ReadLine == ReadFrom(LineAlphabet)

\* the end of the file: emitter.into_script()
EndOfFile ==
    /\ phase = "reading"
    /\ LET s == into_script(emitter)
       IN  /\ script' = s.code
           /\ phase' = IF s.panicked THEN "panic" ELSE "done"
    /\ UNCHANGED <<lines, emitter, engineVars, toolVars>>

NextCompile == ReadLine \/ EndOfFile

SpecCompile == InitCompile /\ [][NextCompile]_vars

\* files made of assignments only, in every shape a script can write them
AssignAlphabet ==
    { <<"setvar", Lit(S_x), "=", S_5>>,
      <<"setvar", Lit(S_x), "-", S_5>>,
      <<"setvar", Lit(S_x), S_6>>,
      <<"gsetvar", Lit(S_y), "+", S_5>>,
      <<"gsetvar", Lit(S_y), S_6>> }

ReadAssignment == ReadFrom(AssignAlphabet)

NextAssign == ReadAssignment \/ EndOfFile

SpecAssign == InitCompile /\ [][NextAssign]_vars

\* ------------------------------------------------------------------------
\* A script without goto and jump is compiled, installed in an engine whose
\* memory holds x, and run by a host that calls step again and again
\* ------------------------------------------------------------------------
RunAlphabet ==
    { <<"text", None, "t">>,
      <<"setvar", Lit(S_x), "=", S_5>>,
      <<"if", Lit(S_x), "==", S_6>>,
      <<"fi">> }

\* the memories the run starts from: x = 5 and x = 6
RunMemories ==
    { MapInsert(EmptyMap, S_x, MapInsert(EmptyMap, 0, S_5)),
      MapInsert(EmptyMap, S_x, MapInsert(EmptyMap, 0, S_6)) }

ReadRunLine == ReadFrom(RunAlphabet)

\* EngineState::load_script: the compiled script becomes the current one
Install ==
    /\ phase = "done"
    /\ op = "new"
    /\ \E memory \in RunMemories :
          state' = [state EXCEPT !.scripts = MapInsert(@, "main.scr", [code |-> script]),
                                 !.current_script = "main.scr",
                                 !.pc = 0,
                                 !.memory = memory]
    /\ result' = Unit
    /\ op' = "load_script"
    /\ UNCHANGED <<savefile, ghost, compilerVars, toolVars>>

\* the host loop: step is called again after whatever the last call returned
RunStep ==
    /\ phase = "done"
    /\ op \in {"load_script", "step"}
    /\ Step

NextRun == ReadRunLine \/ EndOfFile \/ Install \/ RunStep

SpecRun == InitCompile /\ [][NextRun]_vars

\* the host never stops calling step
SpecRunFair == SpecRun /\ WF_vars(RunStep)

\* ------------------------------------------------------------------------
\* split_args on its own: a line is typed, then split with some limit
\* ------------------------------------------------------------------------
LineChars == {"a", "b", " "}

InitSplit == InitOn("game")

TypeChar ==
    /\ split_limit = 0
    /\ Len(split_line) < MaxLineLen
    /\ \E c \in LineChars : split_line' = Append(split_line, c)
    /\ UNCHANGED <<split_limit, split_parts, engineVars, compilerVars, archiveVars, textVars>>

CallSplitArgs ==
    /\ split_limit = 0
    /\ \E lim \in 1..MaxLimit :
          /\ split_limit' = lim
          /\ split_parts' = split_args(split_line, lim)
    /\ UNCHANGED <<split_line, engineVars, compilerVars, archiveVars, textVars>>

NextSplit == TypeChar \/ CallSplitArgs

SpecSplit == InitSplit /\ [][NextSplit]_vars

\* ------------------------------------------------------------------------
\* unescape on its own: a string is typed, then unescaped
\* ------------------------------------------------------------------------
TextChars == {"a", "\"", "'", "\\"}

InitUnescape == InitOn("game")

TypeTextChar ==
    /\ esc_out = None
    /\ Len(esc_s) < MaxTextLen
    /\ \E c \in TextChars : esc_s' = Append(esc_s, c)
    /\ UNCHANGED <<esc_out, engineVars, compilerVars, splitVars, archiveVars>>

CallUnescape ==
    /\ esc_out = None
    /\ esc_out' = Some(unescape(esc_s))
    /\ UNCHANGED <<esc_s, engineVars, compilerVars, splitVars, archiveVars>>

NextUnescape == TypeTextChar \/ CallUnescape

SpecUnescape == InitUnescape /\ [][NextUnescape]_vars

\* ------------------------------------------------------------------------
\* The archive reader of src/leg_archive/src/lib.rs and the asset-layer
\* threads that share it behind a Mutex.  The archive file is its data
\* bytes, followed by the directory (header, records) and the trailer;
\* positions are 0-based offsets into the file.
\* ------------------------------------------------------------------------
ENDTABLEIDENTIFICATION == "LEGARCHTBL"

\* the bytes of the directory and of the trailer, as read through a record
\* whose range runs into them
DirectoryBytes == <<"D">>

TrailerBytes == <<"T">>

\* the layout of the file: the data, the directory, the trailer
FileBytes(d) == d.data \o DirectoryBytes \o TrailerBytes

ArchiveRecord(name, position, length) ==
    [file_name |-> name, position |-> position, length |-> length]

\* a well-formed archive: "a" and "A" differ in case only, and the range of
\* "b" runs past the end of the file
GoodDisk ==
    [trailer |-> TRUE,
     header |-> ENDTABLEIDENTIFICATION,
     records |-> << ArchiveRecord(<<"a">>, 0, 2),
                    ArchiveRecord(<<"A">>, 2, 1),
                    ArchiveRecord(<<"b">>, 3, 9) >>,
     data |-> <<10, 11, 12, 13>>]

\* an archive whose directory starts with other bytes
BadMagicDisk == [GoodDisk EXCEPT !.header = "LEGARCHXXX"]

\* a file too short to hold the trailer
ShortDisk == [GoodDisk EXCEPT !.trailer = FALSE]

DiskFiles == {GoodDisk, BadMagicDisk, ShortDisk}

\* the names asked for; "B" is the name of no record
AssetNames == {<<"a">>, <<"A">>, <<"B">>}

\* leg_archive::load: Ok(Archive), Err, or a panic
leg_archive_load(d, case_sensitive) ==
    IF ~d.trailer THEN [status |-> "err", files |-> <<>>, case_sensitive |-> case_sensitive,
                        pos |-> 0, log |-> <<>>]
    ELSE IF d.header # ENDTABLEIDENTIFICATION
    THEN [status |-> "panic", files |-> <<>>, case_sensitive |-> case_sensitive,
          pos |-> 0, log |-> <<>>]
    ELSE [status |-> "ok",
          log |-> <<>>,
          files |-> [i \in 1..Len(d.records) |->
                       [file_name |-> d.records[i].file_name,
                        range |-> <<d.records[i].position,
                                    d.records[i].position + d.records[i].length>>]],
          case_sensitive |-> case_sensitive,
          pos |-> Len(d.data) + Len(DirectoryBytes)]

\* u8::to_ascii_lowercase, for the characters the names of the model use
ToAsciiLower(c) ==
    CASE c = "A" -> "a" [] c = "B" -> "b" [] c = "C" -> "c" [] c = "D" -> "d"
      [] OTHER -> c

eq_ignore_ascii_case(a, b) ==
    /\ Len(a) = Len(b)
    /\ \A i \in 1..Len(a) : ToAsciiLower(a[i]) = ToAsciiLower(b[i])

\* the comparison Archive::read selects
NameEq(case_sensitive, a, b) ==
    IF case_sensitive THEN a = b ELSE eq_ignore_ascii_case(a, b)

\* mutant: the last matching entry is taken
find_last(ar, name) ==
    LET hits == {i \in 1..Len(ar.files) :
                    NameEq(ar.case_sensitive, ar.files[i].file_name, name)}
    IN  IF hits = {} THEN None
        ELSE Some(CHOOSE i \in hits : \A j \in hits : j <= i)

\* self.files.iter().find(..): the index of the first matching entry
find(ar, name) ==
    LET hits == {i \in 1..Len(ar.files) :
                    NameEq(ar.case_sensitive, ar.files[i].file_name, name)}
    IN  IF hits = {} THEN None
        ELSE Some(CHOOSE i \in hits : \A j \in hits : i <= j)

\* mutant: the seek is relative to the cursor, wrapping at the end of the data
seek_from_current(ar, start) == [ar EXCEPT !.pos = (@ + start) % Len(ar.files)]

\* self.buffer.seek(SeekFrom::Start(start))
seek(ar, start) == [ar EXCEPT !.pos = start]

\* self.buffer.read_exact(&mut buf) of len bytes at the cursor:
\* <<the bytes or None, the archive after the call>>
read_exact(ar, d, len) ==
    IF ar.pos + len <= Len(FileBytes(d))
    THEN <<Some(SubSeq(FileBytes(d), ar.pos + 1, ar.pos + len)),
           [ar EXCEPT !.pos = @ + len]>>
    ELSE <<None, [ar EXCEPT !.pos = Len(FileBytes(d))]>>

\* the log after a read of name returned got: the last LogLen calls
Logged(log, name, got) ==
    LET l == Append(log, <<name, got>>)
    IN  IF Len(l) > LogLen THEN Tail(l) ELSE l

ThreadIdle == [pc |-> "idle", name |-> <<>>, entry |-> None, got |-> None]

InitArchive ==
    /\ state = new("game").state
    /\ savefile = NoFile
    /\ result = Unit
    /\ op = "new"
    /\ ghost = GhostInit
    /\ lines = <<>>
    /\ emitter = EmitterNew
    /\ phase = "idle"
    /\ script = <<>>
    /\ split_line = <<>>
    /\ split_limit = 0
    /\ split_parts = <<>>
    /\ disk \in DiskFiles
    /\ archive = <<>>
    /\ mutex = 0
    /\ threads = [t \in 1..NThreads |-> ThreadIdle]
    /\ esc_s = <<>>
    /\ esc_out = <<>>

\* LegArchiveLoader::new: leg_archive::load(archive_path, ..)
Open ==
    /\ archive = <<>>
    /\ \E case_sensitive \in BOOLEAN :
          archive' = leg_archive_load(disk, case_sensitive)
    /\ UNCHANGED <<disk, mutex, threads, engineVars, compilerVars, splitVars, textVars>>

\* mutant: the lock is handed out while another thread holds it
CanLock_always(t) == TRUE

\* Mutex::lock returns once no thread holds the mutex
CanLock(t) == mutex = 0

\* load_path: self.leg.lock().unwrap()
Lock(t) ==
    /\ archive # <<>>
    /\ archive.status = "ok"
    /\ threads[t].pc = "idle"
    /\ CanLock(t)
    /\ \E name \in AssetNames :
          threads' = [threads EXCEPT ![t] = [pc |-> "locked", name |-> name,
                                             entry |-> None, got |-> None]]
    /\ mutex' = t
    /\ UNCHANGED <<disk, archive, engineVars, compilerVars, splitVars, textVars>>

\* Archive::read: the lookup of the entry; `?` returns None on a miss
Find(t) ==
    /\ threads[t].pc = "locked"
    /\ LET e == find(archive, threads[t].name)
       IN  threads' = [threads EXCEPT ![t].entry = e,
                                      ![t].pc = IF IsSome(e) THEN "seek" ELSE "unlock"]
    /\ UNCHANGED <<disk, archive, mutex, engineVars, compilerVars, splitVars, textVars>>

\* Archive::read: the seek to the start of the entry
Seek(t) ==
    /\ threads[t].pc = "seek"
    /\ archive' = seek(archive, archive.files[Unwrap(threads[t].entry)].range[1])
    /\ threads' = [threads EXCEPT ![t].pc = "read"]
    /\ UNCHANGED <<disk, mutex, engineVars, compilerVars, splitVars, textVars>>

\* Archive::read: read_exact of end - start bytes
ReadExact(t) ==
    /\ threads[t].pc = "read"
    /\ LET range == archive.files[Unwrap(threads[t].entry)].range
           r == read_exact(archive, disk, range[2] - range[1])
       IN  /\ archive' = r[2]
           /\ threads' = [threads EXCEPT ![t].got = r[1], ![t].pc = "unlock"]
    /\ UNCHANGED <<disk, mutex, engineVars, compilerVars, splitVars, textVars>>

\* load_path: the MutexGuard is dropped and the bytes (or the miss) returned
Unlock(t) ==
    /\ threads[t].pc = "unlock"
    /\ mutex' = IF mutex = t THEN 0 ELSE mutex
    /\ archive' = [archive EXCEPT !.log = Logged(@, threads[t].name, threads[t].got)]
    /\ threads' = [threads EXCEPT ![t] = ThreadIdle]
    /\ UNCHANGED <<disk, engineVars, compilerVars, splitVars, textVars>>

NextArchive ==
    \/ Open
    \/ \E t \in 1..NThreads : Lock(t) \/ Find(t) \/ Seek(t) \/ ReadExact(t) \/ Unlock(t)

SpecArchive == InitArchive /\ [][NextArchive]_vars

\* ------------------------------------------------------------------------
\* Properties
\* ------------------------------------------------------------------------
Rec == Unwrap(savefile)

\* the host's calls between the steps of a run: cs[i] = 0 is no call,
\* cs[i] = k is set_choice(k - 1) before the i-th step
ChoiceSeqs == [1..RunLen -> 0..MaxChoice]

RECURSIVE Run(_, _)
Run(st, cs) ==
    IF Len(cs) = 0 THEN <<>>
    ELSE LET st1 == IF cs[1] = 0 THEN st ELSE set_choice(st, cs[1] - 1).state
             r == step(st1)
         IN  IF r.result = Panic THEN <<Panic>>
             ELSE <<r.result>> \o Run(r.state, Tail(cs))

AtSuspension == op = "step" /\ IsEvent(result)

\* the engines on the same directory the record can be loaded into
Loaders == {new(state.directory).state, state}

\* C1 (as stated): at a suspension point S, the steps that follow
\* load(save(S)) return the same StepResults as the steps that continue from S.
C1_RoundTripAsStated ==
    AtSuspension =>
        \A e \in Loaders : \A cs \in ChoiceSeqs :
            Run(load(e, SerializedState(state)).state, cs) = Run(state, cs)

\* C1 (amended): at a suspension point S, load(save(S)) returns the replay
\* list of S's mirrors, the first step after it delivers the Text / Choice of
\* S again, and the steps after that return what the steps from S return.
C1_RoundTrip ==
    AtSuspension =>
        \A e \in Loaders : \A cs \in ChoiceSeqs :
            LET l == load(e, SerializedState(state))
                r1 == step(l.state)
            IN  /\ l.result = Ok(ReplaySteps(SerializedState(state)))
                /\ r1.result = result
                /\ Run(r1.state, cs) = Run(state, cs)

C1_Witness ==
    /\ ghost.after_load = 1
    /\ IsSome(ghost.saved_after)
    /\ result = Unwrap(ghost.saved_after)
    /\ Kind(result) = "Choice"

LoadedAfterText ==
    /\ ghost.after_load = 1
    /\ IsSome(ghost.saved_after)
    /\ Kind(Unwrap(ghost.saved_after)) = "Text"

\* C2 (as stated): save right after a Text, load: the first step after the
\* load returns what the step after that Text returned in the original run.
C2_NextAfterLoadAsStated ==
    LoadedAfterText => result = Unwrap(ghost.saved_next)

\* C2 (amended): save right after a Text, load: the first step after the load
\* returns that same Text again and leaves pc behind it.
C2_NextAfterLoad ==
    LoadedAfterText =>
        /\ result = Unwrap(ghost.saved_after)
        /\ state.pc = Rec.pc + 1
        /\ state.pc_to_save = Rec.pc

C2_Witness == LoadedAfterText /\ Kind(result) = "Text" /\ IsSome(Rec.last_music)

\* C3: after a successful load of record R the engine holds R's
\* current_script, pc, memory and the four last_* fields.
C3_LoadRestoresRecord ==
    (op = "load" /\ Kind(result) = "Ok") =>
        /\ state.current_script = Rec.current_script
        /\ state.pc = Rec.pc
        /\ state.memory = DeserializeMemory(Rec.memory)
        /\ state.last_music = Rec.last_music
        /\ state.last_background = Rec.last_background
        /\ state.last_main_image = Rec.last_main_image
        /\ state.last_date_image = Rec.last_date_image

\* C4: pc_to_save is the offset of the last Text / Choice that the current
\* script emitted, or 0 when it has emitted none.
C4_CheckpointOfCurrentScript ==
    Alive =>
        CASE ghost.last_emit = None -> state.pc_to_save = 0
          [] ghost.last_emit = Some(-1) -> TRUE
          [] OTHER -> state.pc_to_save = Unwrap(ghost.last_emit)

\* C5: pc is at most the code length of scripts[current_script].
C5_PcInRange == Alive => state.pc <= Len(CurrentCode(state))

\* C6: pc_to_save changes only in a step that returns Text or Choice, and
\* such a step sets it to the pc of the instruction.
C6_CheckpointFrame ==
    [][(op' # "new" /\ result' # Panic) =>
         /\ (state'.pc_to_save # state.pc_to_save) => (op' = "step" /\ IsEvent(result'))
         /\ (op' = "step" /\ IsEvent(result')) => state'.pc_to_save = state.pc]_vars

C6_Witness ==
    /\ op = "load_script"
    /\ result = Unit
    /\ state.pc_to_save > 0
    /\ state.pc = 0

\* every Goto of the code targets an offset behind its own
ForwardGotos(code) ==
    \A i \in 1..Len(code) : code[i][1] = "goto" => code[i][2][2] > i - 1

InRunEvent == op' = "step" /\ IsEvent(result') /\ ghost.run_events >= 1

Gotos(code) == {i \in 1..Len(code) : code[i][1] = "goto"}
Branches(code) == {i \in 1..Len(code) : code[i][1] = "branch"}

\* C8 (as stated): every Goto offset lies in [0, len), every else_pc in [0, len].
C8_TargetsAsStated ==
    phase = "done" =>
        /\ \A i \in Gotos(script) :
              script[i][2][1] = "Offset" /\ 0 <= script[i][2][2]
                                         /\ script[i][2][2] < Len(script)
        /\ \A i \in Branches(script) : 0 <= script[i][5] /\ script[i][5] <= Len(script)

\* C8 (amended): every Goto offset and every else_pc lies in [0, len]; a
\* label on the last line resolves to len.
C8_Targets ==
    phase = "done" =>
        /\ \A i \in Gotos(script) :
              script[i][2][1] = "Offset" /\ 0 <= script[i][2][2]
                                         /\ script[i][2][2] <= Len(script)
        /\ \A i \in Branches(script) : 0 <= script[i][5] /\ script[i][5] <= Len(script)

C8_Witness ==
    /\ phase = "done"
    /\ \E i \in Gotos(script) : script[i][2][2] = Len(script)
    /\ \E i \in Branches(script) : script[i][5] = Len(script)

\* the offset of the instruction that line i of the file emits
OffsetOfLine(i) == Cardinality({j \in 1..(i - 1) : lines[j][1] \notin {"label", "fi"}})

\* the `if` lines that no later `fi` closes
OpenIfs == {i \in 1..Len(lines) :
              /\ lines[i][1] = "if"
              /\ \A j \in (i + 1)..Len(lines) : lines[j][1] # "fi"}

\* an engine about to execute offset pc0 of the compiled script
EngineAt(pc0, memory) ==
    [new("game").state EXCEPT !.scripts = MapInsert(@, "main.scr", [code |-> script]),
                              !.pc = pc0,
                              !.memory = memory]

\* memory in which x = 5, so that the condition x == 6 is false
XIsFive == MapInsert(EmptyMap, S_x, MapInsert(EmptyMap, 0, S_5))

\* C9: a script with an `if` and no `fi` compiles, the Branch's else_pc is
\* the offset after the Branch, and a false condition advances pc by one.
C9_OpenIfSkips ==
    (phase = "done" /\ OpenIfs # {}) =>
        \A i \in OpenIfs :
            /\ script[OffsetOfLine(i) + 1][5] = OffsetOfLine(i) + 1
            /\ step(EngineAt(OffsetOfLine(i), XIsFive)).state.pc = OffsetOfLine(i) + 1

\* the StepResult variant each instruction is reported as
EventKind(inst) ==
    CASE inst[1] = "cleartext" -> "Clear"
      [] inst[1] \in {"setvar", "gsetvar", "delay", "branch", "goto"} -> "Continue"
      [] inst[1] = "bgload" -> "Background"
      [] inst[1] = "setimg" -> "Image"
      [] inst[1] = "text" -> "Text"
      [] inst[1] = "sound" -> "Sound"
      [] inst[1] = "music" -> "Music"
      [] inst[1] = "choice" -> "Choice"
      [] inst[1] = "jump" -> "Jump"

\* C10: a step executes the one instruction at pc and returns the
\* StepResult of that instruction; past the end it returns Exit.
C10_OneInstructionPerStep ==
    [][(op' = "step" /\ result' # Panic) =>
         IF state.pc < Len(CurrentCode(state))
         THEN /\ Kind(result') = EventKind(CurrentCode(state)[state.pc + 1])
              /\ state' = Execute(state, CurrentCode(state)[state.pc + 1]).state
         ELSE result' = Exit /\ state' = state]_vars

C10_Witness ==
    /\ op = "step"
    /\ result = Continue
    /\ state.pc < Len(CurrentCode(state))
    /\ CurrentCode(state)[state.pc + 1][1] = "text"

\* the instruction at pc is a jump
AtJump ==
    /\ Alive
    /\ state.pc < Len(CurrentCode(state))
    /\ CurrentCode(state)[state.pc + 1][1] = "jump"

JumpFile == CurrentCode(state)[state.pc + 1][2]

\* C11: a step on Jump(file) returns Jump(file) and leaves the whole state
\* unchanged; every further step returns the same Jump until the host calls
\* load_script or load (or starts a new engine).
C11_JumpFrame ==
    [][(AtJump /\ op' \notin {"load_script", "load", "new"}) =>
         /\ op' = "step" => (result' = Jump(JumpFile) /\ state' = state)
         /\ AtJump'
         /\ JumpFile' = JumpFile]_vars

C11_Witness ==
    /\ op = "step"
    /\ AtJump
    /\ result = Jump(JumpFile)

\* the four media mirrors
Mirrors(st) ==
    <<st.last_background, st.last_music, st.last_main_image, st.last_date_image>>

\* C12: load_script(name) makes name the current script, sets pc to 0 and
\* stores the freshly compiled script under name, so that the next step
\* executes its instruction 0; memory and the four mirrors are unchanged.
C12_LoadScriptFrame ==
    [][(op' = "load_script" /\ result' # Panic) =>
         LET name == Unwrap(ghost'.arg)
             compiled == Compile(Scripts(state.directory)[name]).code
         IN  /\ state'.current_script = name
             /\ state'.pc = 0
             /\ state'.scripts[name].code = compiled
             /\ step(state') = IF Len(compiled) = 0 THEN Ret(state', Exit)
                               ELSE Execute(state', compiled[1])
             /\ state'.memory = state.memory
             /\ Mirrors(state') = Mirrors(state)]_vars

\* load_script("b.scr") was called while main.scr stood behind its music
C12_Witness ==
    /\ op = "load_script"
    /\ result = Unit
    /\ ghost.arg = Some("b.scr")
    /\ state.current_script = "b.scr"
    /\ state.pc = 0
    /\ IsSome(state.last_music)
    /\ S_selected \in DOMAIN state.memory

\* the cell (name, k) of a memory, None when it is absent
Cell(m, name, k) ==
    IF name \in DOMAIN m /\ k \in DOMAIN m[name] THEN Some(m[name][k]) ELSE None

CellKeys(m) == UNION {{<<name, k>> : k \in DOMAIN m[name]} : name \in DOMAIN m}

Selected(st) == Cell(st.memory, S_selected, 0)

\* the instruction a step of st executes
Fetched(st) == CurrentCode(st)[st.pc + 1]

AtInstr(st, tags) == st.pc < Len(CurrentCode(st)) /\ Fetched(st)[1] \in tags

WritesSelected(inst) ==
    \/ inst[1] = "choice"
    \/ /\ inst[1] \in {"setvar", "gsetvar"}
       /\ ~inst[2].is_ref
       /\ inst[2].name = S_selected
       /\ inst[2].index \in {None, Some(0)}

\* C13 (as stated): after set_choice(i) followed by one step from any
\* state, memory["selected"][0] is the decimal string of i + 1.
C13_ChoiceRecordedAsStated ==
    [][(op = "set_choice" /\ op' = "step" /\ result' # Panic) =>
         Selected(state') = Some(to_string(Unwrap(ghost.arg) + 1))]_vars

\* C13 (amended): after set_choice(i) followed by one step,
\* memory["selected"][0] is the decimal string of i + 1 unless the step
\* executes an instruction that writes the cell itself; a step on a Choice
\* leaves "1" there, whatever i was.
C13_ChoiceRecorded ==
    [][(op = "set_choice" /\ op' = "step" /\ result' # Panic) =>
         IF state.pc < Len(CurrentCode(state)) /\ WritesSelected(Fetched(state))
         THEN Fetched(state)[1] = "choice" => Selected(state') = Some(<<"1">>)
         ELSE Selected(state') = Some(to_string(Unwrap(ghost.arg) + 1))]_vars

\* the branch `if selected == 1` of c.scr has just taken its else target
\* on the "2" that set_choice(1) stored
C13_Witness ==
    /\ op = "step"
    /\ result = Continue
    /\ state.current_script = "c.scr"
    /\ state.pc = 7
    /\ Selected(state) = Some(<<"2">>)

\* C14: set_choice(i) writes the decimal string of i + 1 into
\* memory["selected"][0] and changes no other cell and no other field.
C14_SetChoiceFrame ==
    [][op' = "set_choice" =>
         LET i == Unwrap(ghost'.arg)
         IN  /\ result' = Unit
             /\ Selected(state') = Some(to_string(i + 1))
             /\ \A c \in CellKeys(state.memory) \cup CellKeys(state'.memory) :
                    c # <<S_selected, 0>> =>
                        Cell(state'.memory, c[1], c[2]) = Cell(state.memory, c[1], c[2])
             /\ [state' EXCEPT !.memory = state.memory] = state
             /\ savefile' = savefile]_vars

C14_Witness ==
    /\ op = "set_choice"
    /\ ghost.arg = Some(1)
    /\ Selected(state) = Some(<<"2">>)
    /\ Cell(state.memory, S_x, 1) = Some(<<"1", "0">>)
    /\ IsSome(state.last_music)
    /\ state.pc > 0

\* C15: in c.scr (`choice A|B|C`, then `text "$selected"`) the first step
\* returns Choice(["A", "B", "C"]) and the step that follows it directly
\* returns Text(None, "1"), the value of the selected cell.
C15_SelectedInText ==
    [][(op' = "step" /\ state.current_script = "c.scr" /\ Alive) =>
         /\ state.pc = 0 => result' = Choice(<< <<"A">>, <<"B">>, <<"C">> >>)
         /\ (state.pc = 1 /\ op = "step" /\ Kind(result) = "Choice") =>
                result' = Text(None, Unwrap(Selected(state)))]_vars

\* the mirror a media event is recorded in: its position in Mirrors
MirrorOf(r) ==
    CASE Kind(r) = "Background" -> 1
      [] Kind(r) = "Music" -> 2
      [] Kind(r) = "Image" /\ r[3] = "Main" -> 3
      [] Kind(r) = "Image" /\ r[3] = "Date" -> 4

IsMedia(r) == Kind(r) \in {"Background", "Music", "Image"}

\* C16: when step returns Background(p), Music(m), Image(p, Main) or
\* Image(p, Date), the matching mirror holds p (m) in the resulting state
\* and the other three mirrors are unchanged.
C16_MirrorUpdated ==
    [][(op' = "step" /\ IsMedia(result')) =>
         \A k \in 1..4 :
            Mirrors(state')[k] = IF k = MirrorOf(result') THEN Some(result'[2])
                                 ELSE Mirrors(state)[k]]_vars

\* an image was drawn in the Date slot while the other mirrors were set
C16_Witness ==
    /\ op = "step"
    /\ Kind(result) = "Image"
    /\ result[3] = "Date"
    /\ state.last_date_image = Some(result[2])
    /\ IsSome(state.last_main_image)
    /\ IsSome(state.last_background)

\* C17: the replay list of load holds exactly one event for each last_*
\* field present in the record, with the value of that field, none for an
\* absent field, in the order Background, Music, Image(Main), Image(Date).
C17_ReplayList ==
    [][(op' = "load" /\ Kind(result') = "Ok") =>
         LET rec == Unwrap(savefile)
             fields == <<rec.last_background, rec.last_music,
                         rec.last_main_image, rec.last_date_image>>
             list == result'[2]
         IN  /\ \A j \in 1..Len(list) :
                    IsMedia(list[j]) /\ fields[MirrorOf(list[j])] = Some(list[j][2])
             /\ \A k \in 1..4 :
                    IsSome(fields[k]) =>
                        Cardinality({j \in 1..Len(list) : MirrorOf(list[j]) = k}) = 1
             /\ \A i, j \in 1..Len(list) :
                    i < j => MirrorOf(list[i]) < MirrorOf(list[j])]_vars

\* a record without a background was loaded: music and both images are replayed
C17_Witness ==
    /\ op = "load"
    /\ Kind(result) = "Ok"
    /\ Len(result[2]) = 3
    /\ ~IsSome(Rec.last_background)
    /\ IsSome(Rec.last_date_image)

\* a is before b in the lexicographic order of their bytes: at the first
\* position where they differ a has the smaller byte, or a ends there
LexLess(a, b) ==
    \E k \in 1..Len(b) :
        /\ k <= Len(a) + 1
        /\ \A j \in 1..(k - 1) : a[j] = b[j]
        /\ k = Len(a) + 1 \/ CharCode(a[k]) < CharCode(b[k])

IndexOf(ref) == IF IsSome(ref.index) THEN Unwrap(ref.index) ELSE 0

\* C18: a step on Branch(ref, op, literal, else_pc) reads the cell
\* (ref.name, ref.index or 0), compares it with literal as strings (equality
\* for == and !=, lexicographic order for < and <=), sets pc to pc + 1 when
\* the comparison is true and to else_pc when it is false, returns Continue
\* and changes nothing but pc.
C18_Branch ==
    [][(op' = "step" /\ Alive /\ AtInstr(state, {"branch"}) /\ result' # Panic) =>
         LET inst == Fetched(state)
             cell == Cell(state.memory, inst[2].name, IndexOf(inst[2]))
             v == Unwrap(cell)
             holds == CASE inst[3] = "==" -> v = inst[4]
                        [] inst[3] = "!=" -> v # inst[4]
                        [] inst[3] = "<" -> LexLess(v, inst[4])
                        [] inst[3] = "<=" -> v = inst[4] \/ LexLess(v, inst[4])
         IN  /\ IsSome(cell)
             /\ result' = Continue
             /\ state' = [state EXCEPT !.pc = IF holds THEN state.pc + 1 ELSE inst[5]]]_vars

\* `if x[1] < 9` of main.scr was true on the cell "10"
C18_Witness ==
    /\ op = "step"
    /\ result = Continue
    /\ state.directory = "alt"
    /\ state.current_script = "main.scr"
    /\ state.pc = 10
    /\ Cell(state.memory, S_x, 1) = Some(<<"1", "0">>)

\* the value a setvar / gsetvar line of a script file names: its last part
ValueOfLine(parts) == parts[Len(parts)]

\* C19: a step on SetVar / GSetVar with a literal target (name, index)
\* writes the value string of the instruction, which is the unescaped value
\* of the source line whatever its operator, into memory[name][index or 0],
\* leaves every other cell as it was, advances pc by one and returns Continue.
C19_SetVar ==
    [][(/\ op' = "step"
        /\ Alive
        /\ AtInstr(state, {"setvar", "gsetvar"})
        /\ ~Fetched(state)[2].is_ref) =>
         LET inst == Fetched(state)
             target == <<inst[2].name, IndexOf(inst[2])>>
         IN  /\ result' = Continue
             /\ state'.pc = state.pc + 1
             /\ Cell(state'.memory, target[1], target[2]) = Some(inst[3])
             /\ \A c \in CellKeys(state.memory) \cup CellKeys(state'.memory) :
                    c # target =>
                        Cell(state'.memory, c[1], c[2]) = Cell(state.memory, c[1], c[2])
             /\ state.current_script = "main.scr" =>
                    inst[3] = unescape(ValueOfLine(AltMain[state.pc + 1]))]_vars

\* main.scr has run its four assignments: =, -, + and the form without operator
C19_Witness ==
    /\ op = "step"
    /\ result = Continue
    /\ state.directory = "alt"
    /\ state.current_script = "main.scr"
    /\ state.pc = 9
    /\ Cell(state.memory, S_x, 0) = Some(S_6)
    /\ Cell(state.memory, S_x, 1) = Some(<<"1", "0">>)
    /\ Cell(state.memory, S_y, 0) = Some(<<"7">>)
    /\ Cell(state.memory, S_DATEIMAGE, 0) = Some(<<"d">>)

\* C20: a step that aborts with a runtime error leaves pc, pc_to_save,
\* memory and the four mirrors as they were before the call.
C20_AbortLeavesState ==
    [][(op' = "step" /\ result' = Panic) =>
         /\ state'.pc = state.pc
         /\ state'.pc_to_save = state.pc_to_save
         /\ state'.memory = state.memory
         /\ Mirrors(state') = Mirrors(state)]_vars

\* C21: when save or load returns an error to the host, the engine state
\* is the state before the call.
C21_ErrorLeavesState ==
    [][(op' \in {"save", "load"} /\ result' = Err) => state' = state]_vars

\* load could not parse the save file of an engine that had run
C21_Witness ==
    /\ op = "load"
    /\ result = Err
    /\ savefile = Some(Garbage)
    /\ state.pc > 0
    /\ IsSome(state.last_music)

\* pc is not an index of the code of the current script
AtEnd == ~(state.pc < Len(CurrentCode(state)))

\* C22: when pc is not a valid index of the current script's code (an empty
\* script included), step returns Exit and leaves the state unchanged; Exit
\* is returned in no other case, so every later step returns Exit too until
\* load_script or load is called (or a new engine is started).
C22_ExitIsStable ==
    [][/\ (op' = "step" /\ result' = Exit) => AtEnd
       /\ (Alive /\ AtEnd /\ op' \notin {"load_script", "load", "new"}) =>
             /\ op' = "step" => (result' = Exit /\ state' = state)
             /\ AtEnd']_vars

\* the first step of the empty script returned Exit
C22_Witness ==
    /\ op = "step"
    /\ result = Exit
    /\ state.current_script = "empty.scr"
    /\ state.pc = 0

\* the leading token of a line that starts with one
RECURSIVE TakeToken(_)
TakeToken(s) ==
    IF Len(s) = 0 \/ IsWhitespace(s[1]) THEN <<>>
    ELSE <<s[1]>> \o TakeToken(Tail(s))

\* at most lim elements: the leading tokens, and as the lim-th element the
\* whole remainder of the line, left-trimmed
RECURSIVE TokensThenRemainder(_, _)
TokensThenRemainder(s, lim) ==
    LET t == trim_start(s)
    IN  IF Len(t) = 0 THEN <<>>
        ELSE IF lim <= 1 THEN <<t>>
        ELSE <<TakeToken(t)>>
             \o TokensThenRemainder(SubSeq(t, Len(TakeToken(t)) + 1, Len(t)), lim - 1)

\* a line as load_script passes it: no whitespace at either end
Trimmed(s) == Len(s) > 0 => (~IsWhitespace(s[1]) /\ ~IsWhitespace(s[Len(s)]))

\* C27: split_args(line, limit) returns at most limit elements: the first
\* limit - 1 are the leading whitespace-delimited tokens of the line and the
\* last is the whole remainder of the line, left-trimmed, inner whitespace kept.
C27_SplitArgs ==
    (split_limit > 0 /\ Trimmed(split_line)) =>
        /\ Len(split_parts) <= split_limit
        /\ split_parts = TokensThenRemainder(split_line, split_limit)

\* the lines `label L` of the file, L as written (with or without @)
LabelLines(L) == {j \in 1..Len(lines) : lines[j] = <<"label", L>>}

\* C28: in an accepted script every `goto L`, before or after its label,
\* is emitted as Goto(Offset(n)) with n the number of instructions emitted
\* before a line `label L` of the same spelling (@n only for @n); a script
\* with a goto whose label is defined nowhere is not accepted.
C28_GotoResolved ==
    phase = "done" =>
        \A i \in 1..Len(lines) :
            lines[i][1] = "goto" =>
                LET inst == script[OffsetOfLine(i) + 1]
                IN  /\ inst[1] = "goto"
                    /\ inst[2][1] = "Offset"
                    /\ \E j \in LabelLines(lines[i][2]) : inst[2][2] = OffsetOfLine(j)

\* a script with a goto forward to `a` and a goto back to `@1` was accepted
C28_Witness ==
    /\ phase = "done"
    /\ lines = << <<"label", L_indexed(1)>>, <<"goto", L_named("a")>>,
                  <<"goto", L_indexed(1)>>, <<"label", L_named("a")>> >>

\* the `fi` lines after the `if` of line i with no other `if` in between
FisOf(i) ==
    {j \in (i + 1)..Len(lines) :
        /\ lines[j][1] = "fi"
        /\ \A k \in (i + 1)..(j - 1) : lines[k][1] # "if"}

\* C29: for every `if` line followed by a `fi` with no other `if` in
\* between, the else_pc of the emitted Branch is the code length at that
\* `fi`, the offset of the first instruction emitted after it.
C29_FiPatchesElse ==
    phase = "done" =>
        \A i \in 1..Len(lines) :
            lines[i][1] = "if" =>
                \A j \in FisOf(i) : script[OffsetOfLine(i) + 1][5] = OffsetOfLine(j)

\* C30: the compiler accepts `name (= | - | +) value` and `name value`
\* for setvar and for gsetvar alike, and emits SetVar for setvar and GSetVar
\* for gsetvar with the target and the value of the line.
C30_AssignShapes ==
    /\ phase # "panic"
    /\ \A i \in 1..Len(lines) :
          /\ Len(emitter.code) >= i
          /\ emitter.code[i] = <<lines[i][1], lines[i][2], ValueOfLine(lines[i])>>

\* the bytes the archive file holds for a directory record, None when its
\* range does not lie within the file
BytesOf(r) ==
    IF r.position + r.length <= Len(FileBytes(disk))
    THEN Some([i \in 1..r.length |-> FileBytes(disk)[r.position + i]])
    ELSE None

\* the directory records whose name equals name under the archive's sensitivity
Matching(name) ==
    {k \in 1..Len(disk.records) :
        IF archive.case_sensitive THEN disk.records[k].file_name = name
        ELSE eq_ignore_ascii_case(disk.records[k].file_name, name)}

Opened == archive # <<>> /\ archive.status = "ok"

\* C23: read(name) returns the bytes of the first directory record whose
\* name equals name (exactly, or ignoring ASCII case), and absent when no
\* record matches or the bytes of that record cannot be read.
C23_ReadFirstMatch ==
    Opened =>
        \A i \in 1..Len(archive.log) :
            LET name == archive.log[i][1]
                got == archive.log[i][2]
                m == Matching(name)
            IN  IF m = {} THEN got = None
                ELSE \E k \in m :
                        /\ \A j \in m : k <= j
                        /\ got = BytesOf(disk.records[k])

\* "A" was read from a case-insensitive archive and "B" could not be read
C23_Witness ==
    /\ Opened
    /\ ~archive.case_sensitive
    /\ \E i, j \in 1..Len(archive.log) :
          /\ archive.log[i] = << <<"A">>, Some(<<10, 11>>) >>
          /\ archive.log[j] = << <<"B">>, None >>

\* C24: reads of the same name return the same content, whatever reads of
\* other names move the file cursor in between.
C24_RepeatedReads ==
    Opened =>
        \A i, j \in 1..Len(archive.log) :
            archive.log[i][1] = archive.log[j][1] => archive.log[i][2] = archive.log[j][2]

\* "a" was read, then "A" from another place of the file, then "a" again
C24_Witness ==
    /\ Opened
    /\ archive.case_sensitive
    /\ archive.log = << << <<"a">>, Some(<<10, 11>>) >>,
                        << <<"A">>, Some(<<12>>) >>,
                        << <<"a">>, Some(<<10, 11>>) >> >>

InCritical(t) == threads[t].pc \in {"locked", "seek", "read", "unlock"}

\* C25: the lookup, the seek and the read of a call run under the mutex, one
\* thread at a time, and the bytes a thread is about to return are the bytes
\* at the start of the entry it found.
C25_ReadsSerialized ==
    /\ \A t, u \in 1..NThreads : (InCritical(t) /\ InCritical(u)) => t = u
    /\ \A t \in 1..NThreads :
          (threads[t].pc = "unlock" /\ IsSome(threads[t].got)) =>
              LET range == archive.files[Unwrap(threads[t].entry)].range
              IN  /\ mutex = t
                  /\ Unwrap(threads[t].got) =
                        [i \in 1..(range[2] - range[1]) |-> FileBytes(disk)[range[1] + i]]

\* thread 2 has read "a" while thread 1 waits to read after an earlier call
C25_Witness ==
    /\ threads[2].pc = "unlock"
    /\ threads[2].got = Some(<<10, 11>>)
    /\ threads[1].pc = "idle"
    /\ Len(archive.log) > 0
    /\ archive.log[Len(archive.log)][1] = <<"A">>

\* C26: opening an archive whose directory does not start with LEGARCHTBL
\* produces no Archive and returns an error to the caller.
C26_BadMagicIsError ==
    (archive # <<>> /\ disk.trailer /\ disk.header # ENDTABLEIDENTIFICATION) =>
        archive.status = "err"

\* ------------------------------------------------------------------------
\* Properties of unescape
\* ------------------------------------------------------------------------
Quotes == {"\"", "'"}

\* s without its pair of surrounding quotes, when it has one
PairStripped(s) ==
    IF Len(s) >= 2 /\ s[1] \in Quotes /\ s[Len(s)] = s[1]
    THEN SubSeq(s, 2, Len(s) - 1)
    ELSE s

\* C31: unescape removes surrounding quotes only as one matching pair: the
\* result is the escape processing of the argument without that pair, and of
\* the whole argument when the two ends are not the same quote character.
C31_QuotesStrippedAsPair ==
    IsSome(esc_out) => Unwrap(esc_out) = UnescapeChars(PairStripped(esc_s), FALSE)

\* the backslash at position i of s is consumed as an escape
RECURSIVE DroppedAt(_, _)
DroppedAt(s, i) ==
    /\ s[i] = "\\"
    /\ ~(i > 1 /\ DroppedAt(s, i - 1))

\* the characters of s at the positions from i on that are not consumed
RECURSIVE KeptFrom(_, _)
KeptFrom(s, i) ==
    IF i > Len(s) THEN <<>>
    ELSE IF DroppedAt(s, i) THEN KeptFrom(s, i + 1)
    ELSE <<s[i]>> \o KeptFrom(s, i + 1)

Running == phase = "done" /\ op \in {"load_script", "step"}

\* C33: once a script without goto and jump is installed, the host that
\* keeps calling step receives Exit after finitely many calls.
C33_RunTerminates == Running ~> (Running /\ result = Exit)

\* ------------------------------------------------------------------------
\* Closed branches
\* ------------------------------------------------------------------------
\* the `if` lines read so far that a `fi` has closed
ClosedIfs == {i \in 1..Len(lines) : lines[i][1] = "if" /\ FisOf(i) # {}}

\* C34: no later line of the script changes the else_pc of a Branch whose
\* `if` has been closed by a `fi`.
C34_ClosedBranchStable ==
    [][\A i \in ClosedIfs :
          emitter'.code[OffsetOfLine(i) + 1][5] = emitter.code[OffsetOfLine(i) + 1][5]]_vars

\* ------------------------------------------------------------------------
\* Save after load
\* ------------------------------------------------------------------------
\* C35: a save that follows a successful load of the record R with no call
\* in between writes a record equal to R, the content of the save file.
C35_SaveAfterLoad ==
    [][(op = "load" /\ Kind(result) = "Ok" /\ op' = "save" /\ Kind(result') = "Ok")
          => savefile' = savefile]_vars

\* ------------------------------------------------------------------------
\* Replayed images
\* ------------------------------------------------------------------------
\* the Image events the setimg instructions of the scripts of st return
SetImgEvents(st) ==
    UNION {{step_setimg(st, st.scripts[n].code[i][2], st.scripts[n].code[i][3],
                        st.scripts[n].code[i][4]).result :
               i \in {k \in 1..Len(st.scripts[n].code) :
                         st.scripts[n].code[k][1] = "setimg"}} :
           n \in DOMAIN st.scripts}

\* C36: every Image event of the replay list is the event of the setimg
\* instruction that set the mirror: its slot, its path and its x and y (each
\* mirror of the scripts of the model is set by one instruction only).
C36_ReplayedImagePlaced ==
    [][(op' = "load" /\ Kind(result') = "Ok") =>
         \A j \in 1..Len(result'[2]) :
             result'[2][j][1] = "Image" => result'[2][j] \in SetImgEvents(state')]_vars

\* ------------------------------------------------------------------------
\* The current script is cached
\* ------------------------------------------------------------------------
\* the file Scripts/name of the directory exists and compiles
Compiles(dir, name) ==
    name \in DOMAIN Scripts(dir) /\ ~Compile(Scripts(dir)[name]).panicked

\* st has the current script, the pc and the cache of the engine
SameScripts(st) ==
    /\ st.current_script = state.current_script
    /\ st.pc = state.pc
    /\ st.scripts = state.scripts

\* C37: the current script is always a key of the cache, and from every
\* reachable state a load_script of a script that cannot be compiled, and a
\* load of a record that names such a script, leave current_script, pc and
\* the cache as they are.
C37_CurrentScriptCached ==
    /\ state.current_script \in DOMAIN state.scripts
    /\ \A name \in ScriptNames :
          ~Compiles(state.directory, name) =>
              /\ SameScripts(load_script(state, name).state)
              /\ SameScripts(load(state, [SerializedState(state) EXCEPT
                                            !.current_script = name]).state)

\* a load_script of a script that cannot be compiled has aborted in the
\* middle of a run of b.scr
C37_Witness ==
    /\ op = "load_script"
    /\ result = Panic
    /\ state.current_script = "b.scr"
    /\ state.pc > 0

====
